---- MODULE Spec2Model ----
(***************************************************************************)
(* The AudioRecorder component (src/unnamed/part_002): its React state,    *)
(* its refs, and the browser objects it drives (getUserMedia requests,     *)
(* media streams, MediaRecorder instances, interval timers, object URLs).  *)
(* One action per event handler; the browser's callbacks interleave        *)
(* between handlers on one event loop.                                     *)
(* Around it, the App shell (src/unnamed/part_003) that receives the        *)
(* artifact and stores it, the recordings list                             *)
(* (src/src/components/RecordingsList.tsx) and the recording_logs table     *)
(* with its row-level policies (src/supabase/migrations).                  *)
(***************************************************************************)
EXTENDS Integers, Sequences, FiniteSets, TLC

\* ---------------------------------------------------------------- bounds
MaxStarts == 1      \* start clicks (device requests) in one behaviour of Spec
MaxChunks == 3      \* dataavailable events per chunk array
MaxTime == 1        \* ticks shown by the elapsed-seconds counter
MaxHandoffs == 1    \* recordings handed to the App for upload
MaxRows == 2        \* rows other clients insert into recording_logs

\* Device requests are numbered as they are issued; SpecRestart allows one
\* more than Spec.
Sessions == 1 .. (MaxStarts + 1)
NoId == 0           \* a null ref, and the empty audioUrl ''

\* ------------------------------------------------------- program constants
MimePreference ==
    << "audio/webm;codecs=opus", "audio/webm", "audio/ogg;codecs=opus",
       "audio/mp4", "audio/wav" >>
FallbackMime == "audio/webm"
BlobFallbackType == "audio/webm"

MsgUnsupported ==
    << "Audio recording is not supported in this browser. Please use Chrome, Firefox, or Safari." >>
MsgNoAudio == << "No audio data was recorded. Please try again." >>
MsgEmptyFile ==
    << "Recorded audio file is empty. Please check your microphone and try again." >>
MsgBlobFailed == << "Failed to create audio file. Please try recording again." >>
MsgRecorderError == << "Recording error occurred. Please try again." >>
MsgPrefix == "Error accessing microphone. "
NoError == << >>

\* Values a failing startRecording can throw: DOMExceptions by name, any
\* other Error (its message is kept), and a thrown non-Error value.
NoTracksError == [isError |-> TRUE, name |-> "Error",
                  message |-> "No audio tracks found in media stream"]
DomError(n) == [isError |-> TRUE, name |-> n, message |-> "<browser text>"]
NonError == [isError |-> FALSE, name |-> "", message |-> ""]
AcquireFailures ==
    { DomError("NotAllowedError"), DomError("NotFoundError"),
      DomError("NotSupportedError"), DomError("NotReadableError"),
      DomError("AbortError"), NonError }
RecorderFailures == { DomError("NotSupportedError"), DomError("InvalidStateError") }

\* The accounts of auth.users; Null is SQL NULL and JavaScript undefined.
AdminEmail == "banuweb3@gmail.com"
Null == "null"
Ann == [id |-> "ann", email |-> "ann@example.com"]
Bob == [id |-> "bob", email |-> "bob@example.com"]
Admin == [id |-> "root", email |-> AdminEmail]
Users == {Ann, Bob, Admin}
Anon == [id |-> Null, email |-> Null]
Clients == Users \cup {Anon}
NoUser == Anon      \* session?.user || null

MsgNameMissing == "Please enter candidate name"
MsgLabelMissing == "Please enter question label"
MsgUploadFailed == "Failed to upload recording"
MsgListFailed == "Failed to load recordings. Please try again."
UploadBlobType == "audio/wav"

\* What supabase returns as error: an Error with a message, or a plain object.
StoreFailures ==
    { [isError |-> TRUE, message |-> "<server text>"],
      [isError |-> FALSE, message |-> "<server text>"] }

\* Texts typed into the two metadata fields, as sequences of characters.
FieldTexts == { << >>, << " " >>, << " ", "a", " " >> }

NoCall == [stage |-> "none"]

VARIABLES
    mounted,            \* the component is mounted
    isSupported,        \* useState: isSupported
    isRecording,        \* useState: isRecording
    audioBlob,          \* useState: audioBlob, << >> for null, <<blob>> otherwise
    recordingTime,      \* useState: recordingTime
    audioUrl,           \* useState: audioUrl, NoId for ''
    error,              \* useState: error, NoError for ''
    mediaRecorderRef,   \* useRef: the current MediaRecorder, NoId for null
    audioChunksRef,     \* useRef: the chunk array
    timerRef,           \* useRef: the interval id, NoId for null
    streamRef,          \* useRef: the MediaStream, NoId for null
    nextId,             \* getUserMedia requests issued so far
    pending,            \* getUserMedia requests not yet settled
    stream,             \* per request: "none" | "live" | "stopped" | "trackless"
    rec,                \* per request: "none" | "inactive" | "recording" | "stopping"
    supported,          \* the types MediaRecorder.isTypeSupported accepts in this browser
    timers,             \* interval timers that are running
    urls,               \* object URLs created and not revoked
    delivered,          \* history: event.data of every dataavailable since the chunk array was replaced
    lastOp,             \* history: the handler that ran last, with its outcome
    prevState,          \* history: the session state in which it ran
    user,               \* App useState: user
    currentView,        \* App useState: currentView
    isUploading,        \* App useState: isUploading
    uploadSuccess,      \* App useState: uploadSuccess
    uploadError,        \* App useState: uploadError, "" for none
    nextFile,           \* uuids generated so far
    upload,             \* the handleRecordingComplete call in flight, NoCall for none
    successTimers,      \* pending timeouts that clear uploadSuccess
    objects,            \* the recordings bucket: path and content of each object
    recording_logs,     \* the table, in insertion order
    insertedBy,         \* history: the client that inserted each row
    selected,           \* history: the last select a client made, and its result
    loading,            \* RecordingsList useState: loading
    listError,          \* RecordingsList useState: error
    recordings,         \* RecordingsList useState: recordings
    appLoading,         \* App useState: loading
    session,            \* the auth service: the signed-in account, NoUser for none
    lookup,             \* the getSession call of the mount effect
    notified            \* history: the account of the last auth notification, << >> before any

reactState == << isSupported, isRecording, audioBlob, recordingTime, audioUrl, error >>
refs == << mediaRecorderRef, audioChunksRef, timerRef, streamRef >>
browser == << supported, nextId, pending, stream, rec, timers, urls >>
history == << delivered, lastOp, prevState >>
program == << mounted, reactState, refs, browser >>
appState == << user, currentView, isUploading, uploadSuccess, uploadError >>
handoff == << nextFile, upload, successTimers >>
store == << objects, recording_logs, insertedBy, selected >>
listState == << loading, listError, recordings >>
auth == << appLoading, session, lookup, notified >>
shell == << appState, handoff, store, listState, auth >>
vars == << program, history, shell >>

\* ------------------------------------------------------------ session state
HasBlob == audioBlob # << >>

\* The spec's session state, read off the component's state.
SessionState ==
    IF ~mounted THEN "Disposed"
    ELSE IF isRecording THEN "Recording"
    ELSE IF pending # {} THEN "Requesting"
    ELSE IF error # NoError THEN "Error"
    ELSE IF HasBlob THEN "Stopped"
    ELSE "Idle"

\* A render that offers Start Recording without the capability check.
StartVisible_IgnoresSupport == mounted /\ ~isRecording /\ ~HasBlob

\* Render conditions of the three buttons.
StartVisible == mounted /\ isSupported /\ ~isRecording /\ ~HasBlob
StopVisible == mounted /\ isSupported /\ isRecording
ResetVisible == mounted /\ isSupported /\ HasBlob /\ audioUrl # NoId

\* ------------------------------------------------------------ pure helpers
RECURSIVE FirstSupported(_, _)
FirstSupported(i, sup) ==
    IF i > Len(MimePreference) THEN FallbackMime
    ELSE IF MimePreference[i] \in sup THEN MimePreference[i]
    ELSE FirstSupported(i + 1, sup)

\* A negotiation in which the last supported entry wins.
getSupportedMimeType_LastWins(sup) ==
    LET idx == { i \in 1 .. Len(MimePreference) : MimePreference[i] \in sup }
    IN  IF idx = {} THEN FallbackMime
        ELSE MimePreference[CHOOSE i \in idx : \A j \in idx : j <= i]

getSupportedMimeType(sup) == FirstSupported(1, sup)

\* const mimeType = getSupportedMimeType(): the same in every startRecording
\* of one browser.
mimeType == getSupportedMimeType(supported)

\* Every answer isTypeSupported can give over the preference list.
AllSupportSets == SUBSET { MimePreference[i] : i \in 1 .. Len(MimePreference) }

\* What MediaRecorder.isTypeSupported may answer in a browser, and the
\* mimeType a recorder constructed without options reports.
ChromiumProfile == {"audio/webm;codecs=opus", "audio/webm", "audio/ogg;codecs=opus"}
SupportProfiles == { ChromiumProfile, {"audio/mp4"}, {} }
BrowserDefaultMime == "audio/aac"

\* new MediaRecorder(stream, {mimeType}) throws for a type the browser does
\* not support, and the catch constructs the recorder without options.
RecorderMime(sup) ==
    IF getSupportedMimeType(sup) \in sup
    THEN getSupportedMimeType(sup) ELSE BrowserDefaultMime

\* A catch block with one message for every thrown value.
errorMessage_OneMessage(e) ==
    << MsgPrefix, "Please check your microphone permissions." >>

errorMessage(e) ==
    IF e.isError
    THEN IF e.name = "NotAllowedError"
         THEN << MsgPrefix, "Please allow microphone access and try again." >>
         ELSE IF e.name = "NotFoundError"
         THEN << MsgPrefix, "No microphone found. Please connect a microphone." >>
         ELSE IF e.name = "NotSupportedError"
         THEN << MsgPrefix, "Audio recording is not supported in this browser." >>
         ELSE IF e.name = "NotReadableError"
         THEN << MsgPrefix, "Microphone is being used by another application." >>
         ELSE << MsgPrefix, e.message >>
    ELSE << MsgPrefix, "Please check your microphone permissions." >>

RECURSIVE totalSize(_)
totalSize(chunks) ==
    IF chunks = << >> THEN 0 ELSE Len(Head(chunks).data) + totalSize(Tail(chunks))

RECURSIVE BlobData(_)
BlobData(chunks) ==
    IF chunks = << >> THEN << >> ELSE Head(chunks).data \o BlobData(Tail(chunks))

firstChunkType(chunks) ==
    IF chunks # << >> /\ chunks[1].type # "" THEN chunks[1].type ELSE BlobFallbackType

NewBlob(chunks) == [data |-> BlobData(chunks), type |-> firstChunkType(chunks)]

\* onstop without its two emptiness checks.
finalizeOutcome_NoEmptyCheck(chunks) == "finalizeArtifact"

\* The branch onstop takes for the accumulated chunks.
finalizeOutcome(chunks) ==
    IF Len(chunks) = 0 THEN "finalizeNoChunks"
    ELSE IF totalSize(chunks) = 0 THEN "finalizeNoBytes"
    ELSE IF Len(NewBlob(chunks).data) > 0 THEN "finalizeArtifact"
    ELSE "finalizeFailed"

\* ondataavailable putting event.data at the front of the array.
PushChunk_Prepends(chunks, data) ==
    IF Len(data.data) > 0 THEN << data >> \o chunks ELSE chunks

\* ondataavailable: keep event.data only when it has bytes
PushChunk(chunks, data) ==
    IF Len(data.data) > 0 THEN Append(chunks, data) ELSE chunks

\* track.stop() on every track of stream s; a recorder whose tracks have all
\* ended stops by itself and will fire its stop event.
StopTracks(st, s) ==
    IF s # NoId /\ st[s] = "live" THEN [st EXCEPT ![s] = "stopped"] ELSE st
TracksEnded(rc, st, s) ==
    IF s # NoId /\ st[s] = "live" /\ rc[s] = "recording"
    THEN [rc EXCEPT ![s] = "stopping"] ELSE rc

\* A cleanup that forgets the stream.
Cleanup_KeepsTracks(ts, us, st, rc, tRef, sRef, url) ==
    [ timers |-> IF tRef # NoId THEN ts \ {tRef} ELSE ts,
      urls |-> IF url # NoId THEN us \ {url} ELSE us,
      stream |-> st,
      rec |-> rc ]

\* The cleanup returned by the effect, closed over the audioUrl of its render.
Cleanup(ts, us, st, rc, tRef, sRef, url) ==
    [ timers |-> IF tRef # NoId THEN ts \ {tRef} ELSE ts,
      urls |-> IF url # NoId THEN us \ {url} ELSE us,
      stream |-> StopTracks(st, sRef),
      rec |-> TracksEnded(rc, st, sRef) ]

\* A state setter called from a callback: React drops the update once the
\* component is unmounted (refs and browser objects are still written).
Set(old, new) == IF mounted THEN new ELSE old

\* History of a browser callback, and of a handler the user or the parent
\* invokes (which also records the session state it was invoked in).
Note(op) == lastOp' = op /\ prevState' = "-"
NoteFrom(op) == lastOp' = op /\ prevState' = SessionState

\* ---------------------------------------------------------------- Init
InitIn(profiles) ==
    /\ mounted = TRUE
    /\ isSupported \in BOOLEAN
    /\ error = IF isSupported THEN NoError ELSE MsgUnsupported
    /\ isRecording = FALSE
    /\ audioBlob = << >>
    /\ recordingTime = 0
    /\ audioUrl = NoId
    /\ mediaRecorderRef = NoId
    /\ audioChunksRef = << >>
    /\ timerRef = NoId
    /\ streamRef = NoId
    /\ nextId = 0
    /\ pending = {}
    /\ stream = [s \in Sessions |-> "none"]
    /\ rec = [s \in Sessions |-> "none"]
    /\ supported \in profiles
    /\ timers = {}
    /\ urls = {}
    /\ delivered = << >>
    /\ lastOp = "mount"
    /\ prevState = "-"

\* The App at the moment it first shows the recorder to a signed-in user.
InitShell(users) ==
    /\ user \in users
    /\ currentView = "record"
    /\ isUploading = FALSE
    /\ uploadSuccess = FALSE
    /\ uploadError = ""
    /\ nextFile = 0
    /\ upload = NoCall
    /\ successTimers = 0
    /\ objects = {}
    /\ recording_logs = << >>
    /\ insertedBy = << >>
    /\ selected = [by |-> Anon, rows |-> << >>]
    /\ loading = FALSE
    /\ listError = ""
    /\ recordings = << >>
    /\ appLoading = FALSE
    /\ session = user
    /\ lookup = [stage |-> "done", user |-> user]
    /\ notified = << user >>

Init == InitIn({ChromiumProfile}) /\ InitShell({Ann})

\* ------------------------------------------------------------- startRecording
\* startRecording up to the await: clears the error, asks for the microphone.
startRecording ==
    /\ error' = NoError
    /\ nextId' = nextId + 1
    /\ pending' = pending \cup {nextId + 1}
    /\ UNCHANGED << shell, mounted, isSupported, isRecording, audioBlob, recordingTime,
                    audioUrl, refs, stream, rec, supported, timers, urls, delivered >>

ClickStart == StartVisible /\ nextId < MaxStarts /\ startRecording /\ NoteFrom("start")

\* The catch block: a message for the thrown value, and the recording flag off.
Catch(e) ==
    /\ error' = Set(error, errorMessage(e))
    /\ isRecording' = Set(isRecording, FALSE)

\* A rejection handler that asks for the microphone again by itself.
GetUserMediaRejected_Retries(id, e) ==
    /\ id \in pending
    /\ nextId' = nextId + 1
    /\ pending' = (pending \ {id}) \cup {nextId + 1}
    /\ Catch(e)
    /\ Note("startFailed")
    /\ UNCHANGED << shell, mounted, isSupported, audioBlob, recordingTime, audioUrl, refs,
                    supported, stream, rec, timers, urls, delivered >>

\* getUserMedia rejects.
GetUserMediaRejected(id, e) ==
    /\ id \in pending
    /\ pending' = pending \ {id}
    /\ Catch(e)
    /\ Note("startFailed")
    /\ UNCHANGED << shell, mounted, isSupported, audioBlob, recordingTime, audioUrl, refs,
                    nextId, stream, rec, supported, timers, urls, delivered >>

\* getUserMedia resolves with a stream that has no audio track.
StartNoTracks(id) ==
    /\ id \in pending
    /\ pending' = pending \ {id}
    /\ stream' = [stream EXCEPT ![id] = "trackless"]
    /\ streamRef' = id
    /\ Catch(NoTracksError)
    /\ Note("startFailed")
    /\ UNCHANGED << shell, mounted, isSupported, audioBlob, recordingTime, audioUrl,
                    mediaRecorderRef, audioChunksRef, timerRef,
                    nextId, rec, supported, timers, urls, delivered >>

\* The stream is acquired and both MediaRecorder constructors throw.
StartConstructFails(id, e) ==
    /\ id \in pending
    /\ pending' = pending \ {id}
    /\ stream' = [stream EXCEPT ![id] = "live"]
    /\ streamRef' = id
    /\ Catch(e)
    /\ Note("startFailed")
    /\ UNCHANGED << shell, mounted, isSupported, audioBlob, recordingTime, audioUrl,
                    mediaRecorderRef, audioChunksRef, timerRef,
                    nextId, rec, supported, timers, urls, delivered >>

\* The recorder is constructed and installed, and mediaRecorder.start throws.
StartBeginFails(id, e) ==
    /\ id \in pending
    /\ pending' = pending \ {id}
    /\ stream' = [stream EXCEPT ![id] = "live"]
    /\ streamRef' = id
    /\ mediaRecorderRef' = id
    /\ audioChunksRef' = << >>
    /\ delivered' = << >>
    /\ rec' = [rec EXCEPT ![id] = "inactive"]
    /\ Catch(e)
    /\ Note("startFailed")
    /\ UNCHANGED << shell, mounted, isSupported, audioBlob, recordingTime, audioUrl,
                    timerRef, supported, nextId, timers, urls >>

\* The whole try block runs: recorder started, flag on, counter zeroed, timer set.
StartSucceeds(id) ==
    /\ id \in pending
    /\ pending' = pending \ {id}
    /\ stream' = [stream EXCEPT ![id] = "live"]
    /\ streamRef' = id
    /\ mediaRecorderRef' = id
    /\ audioChunksRef' = << >>
    /\ delivered' = << >>
    /\ rec' = [rec EXCEPT ![id] = "recording"]
    /\ isRecording' = Set(isRecording, TRUE)
    /\ recordingTime' = Set(recordingTime, 0)
    /\ timerRef' = id
    /\ timers' = timers \cup {id}
    /\ Note("started")
    /\ UNCHANGED << shell, mounted, isSupported, audioBlob, audioUrl, error,
                    supported, nextId, urls >>

\* ------------------------------------------------------- recorder callbacks
\* event.data of a dataavailable event: an empty blob, a blob typed with the
\* recorder's mimeType, and a blob that carries no type.
Fragments ==
    { [data |-> << >>, type |-> ""],
      [data |-> <<1>>, type |-> RecorderMime(supported)],
      [data |-> <<2, 3>>, type |-> ""] }

\* mediaRecorder.ondataavailable
OnDataAvailable(r, data) ==
    /\ rec[r] \in {"recording", "stopping"}
    /\ Len(delivered) < MaxChunks
    /\ audioChunksRef' = PushChunk(audioChunksRef, data)
    /\ delivered' = Append(delivered, data)
    /\ Note("chunk")
    /\ UNCHANGED << shell, mounted, reactState, mediaRecorderRef, timerRef, streamRef, browser >>

\* mediaRecorder.onerror; the browser then inactivates the recorder, which
\* fires its stop event.
OnError(r) ==
    /\ rec[r] = "recording"
    /\ error' = Set(error, MsgRecorderError)
    /\ isRecording' = Set(isRecording, FALSE)
    /\ rec' = [rec EXCEPT ![r] = "stopping"]
    /\ Note("recorderError")
    /\ UNCHANGED << shell, mounted, isSupported, audioBlob, recordingTime, audioUrl, refs,
                    nextId, pending, stream, supported, timers, urls, delivered >>

\* mediaRecorder.onstop, with the effect cleanup that a changed audioUrl
\* triggers on the next render.
OnStop(r) ==
    /\ rec[r] = "stopping"
    /\ LET rc1 == [rec EXCEPT ![r] = "inactive"]
           outcome == finalizeOutcome(audioChunksRef)
       IN
       IF outcome \in {"finalizeNoChunks", "finalizeNoBytes"}
       THEN /\ error' = Set(error, IF outcome = "finalizeNoChunks"
                                   THEN MsgNoAudio ELSE MsgEmptyFile)
            /\ rec' = rc1
            /\ Note(outcome)
            /\ UNCHANGED << audioBlob, audioUrl, streamRef, stream, timers, urls >>
       ELSE LET blob == NewBlob(audioChunksRef)
                ok == outcome = "finalizeArtifact"
                us1 == IF ok THEN urls \cup {r} ELSE urls
                st1 == StopTracks(stream, streamRef)
                rc2 == TracksEnded(rc1, stream, streamRef)
                rerender == mounted /\ ok
                c == Cleanup(timers, us1, st1, rc2, timerRef, NoId, audioUrl)
            IN  /\ audioBlob' = Set(audioBlob, IF ok THEN << blob >> ELSE audioBlob)
                /\ audioUrl' = Set(audioUrl, IF ok THEN r ELSE audioUrl)
                /\ error' = Set(error, IF ok THEN error ELSE MsgBlobFailed)
                /\ streamRef' = NoId
                /\ stream' = st1
                /\ rec' = IF rerender THEN c.rec ELSE rc2
                /\ timers' = IF rerender THEN c.timers ELSE timers
                /\ urls' = IF rerender THEN c.urls ELSE us1
                /\ Note(outcome)
    /\ UNCHANGED << shell, mounted, isSupported, isRecording, recordingTime,
                    mediaRecorderRef, audioChunksRef, timerRef,
                    supported, nextId, pending, delivered >>

\* The setInterval callback; its update is dropped after the unmount.
Tick(t) ==
    /\ t \in timers
    /\ mounted
    /\ recordingTime < MaxTime
    /\ recordingTime' = recordingTime + 1
    /\ Note("tick")
    /\ UNCHANGED << shell, mounted, isSupported, isRecording, audioBlob, audioUrl, error,
                    refs, browser, delivered >>

\* -------------------------------------------------------------- stopRecording
\* A guard that forgets the recording flag.
stopGuard_IgnoresFlag == mediaRecorderRef # NoId

\* if (mediaRecorderRef.current && isRecording)
stopGuard == mediaRecorderRef # NoId /\ isRecording

stopRecording ==
    IF stopGuard
    THEN /\ timers' = IF timerRef # NoId THEN timers \ {timerRef} ELSE timers
         /\ timerRef' = NoId
         /\ isRecording' = FALSE
         /\ rec' = IF rec[mediaRecorderRef] = "recording"
                   THEN [rec EXCEPT ![mediaRecorderRef] = "stopping"] ELSE rec
         /\ UNCHANGED << shell, mounted, isSupported, audioBlob, recordingTime, audioUrl,
                         error, mediaRecorderRef, audioChunksRef, streamRef,
                         nextId, pending, stream, supported, urls, delivered >>
    ELSE UNCHANGED << shell, program, delivered >>

ClickStop == StopVisible /\ stopRecording /\ NoteFrom("stop")

\* ------------------------------------------------------------- resetRecording
\* A reset that keeps the chunk array.
resetValues_KeepsChunks ==
    [ audioBlob |-> << >>, audioUrl |-> NoId, recordingTime |-> 0,
      error |-> NoError, audioChunks |-> audioChunksRef ]

\* What resetRecording assigns.
resetValues ==
    [ audioBlob |-> << >>, audioUrl |-> NoId, recordingTime |-> 0,
      error |-> NoError, audioChunks |-> << >> ]

resetRecording ==
    LET us1 == IF audioUrl # NoId THEN urls \ {audioUrl} ELSE urls
        rerender == mounted /\ audioUrl # NoId
        c == Cleanup(timers, us1, stream, rec, timerRef, streamRef, audioUrl)
    IN  /\ audioBlob' = resetValues.audioBlob
        /\ audioUrl' = resetValues.audioUrl
        /\ recordingTime' = resetValues.recordingTime
        /\ error' = resetValues.error
        /\ audioChunksRef' = resetValues.audioChunks
        /\ delivered' = << >>
        /\ timers' = IF rerender THEN c.timers ELSE timers
        /\ urls' = IF rerender THEN c.urls ELSE us1
        /\ stream' = IF rerender THEN c.stream ELSE stream
        /\ rec' = IF rerender THEN c.rec ELSE rec
        /\ UNCHANGED << shell, mounted, isSupported, isRecording, mediaRecorderRef,
                        timerRef, streamRef, nextId, pending, supported >>

ClickReset == ResetVisible /\ resetRecording /\ NoteFrom("reset")

\* -------------------------------------------------------------------- dispose
\* The effect cleanup of the last render.
dispose ==
    LET c == Cleanup(timers, urls, stream, rec, timerRef, streamRef, audioUrl)
    IN  /\ timers' = c.timers
        /\ urls' = c.urls
        /\ stream' = c.stream
        /\ rec' = c.rec
        /\ UNCHANGED << reactState, refs, nextId, pending, supported, delivered >>

\* The component unmounts.
Dispose ==
    mounted /\ dispose /\ mounted' = FALSE /\ NoteFrom("dispose") /\ UNCHANGED shell

\* ------------------------------------------------------------------ hand-off
RECURSIVE trimStart(_)
trimStart(t) == IF t # << >> /\ Head(t) = " " THEN trimStart(Tail(t)) ELSE t
RECURSIVE trimEnd(_)
trimEnd(t) ==
    IF t # << >> /\ t[Len(t)] = " " THEN trimEnd(SubSeq(t, 1, Len(t) - 1)) ELSE t
\* A trim that removes nothing.
trim_KeepsSpaces(t) == t

\* String.prototype.trim
trim(t) == trimEnd(trimStart(t))

\* `recordings/${candidateName.trim()}/${fileId}.wav`, and its public URL
filePath(name, fileId) == << "recordings", trim(name), fileId, ".wav" >>
getPublicUrl(path) == << "public", "recordings" >> \o path

\* new Blob([audioBlob], { type: 'audio/wav' })
wavBlob(blob) == [data |-> blob.data, type |-> UploadBlobType]

\* A catch block that shows nothing.
uploadErrorMessage_Silent(e) == ""

\* error instanceof Error ? error.message : 'Failed to upload recording'
uploadErrorMessage(e) == IF e.isError THEN e.message ELSE MsgUploadFailed

\* The Upload Recording button is rendered and not disabled.
UploadEnabled == ResetVisible /\ ~isUploading

\* App.handleRecordingComplete up to its first await.
handleRecordingComplete(blob, name, label) ==
    IF trim(name) = << >>
    THEN /\ uploadError' = MsgNameMissing
         /\ Note("handoffRejected")
         /\ UNCHANGED << isUploading, uploadSuccess, handoff >>
    ELSE IF trim(label) = << >>
    THEN /\ uploadError' = MsgLabelMissing
         /\ Note("handoffRejected")
         /\ UNCHANGED << isUploading, uploadSuccess, handoff >>
    ELSE /\ isUploading' = TRUE
         /\ uploadError' = ""
         /\ uploadSuccess' = FALSE
         /\ nextFile' = nextFile + 1
         /\ upload' = [ stage |-> "storage",
                        blob |-> wavBlob(blob),
                        path |-> filePath(name, nextFile + 1),
                        row |-> [ candidate_name |-> trim(name),
                                  question_label |-> trim(label),
                                  user_id |-> user.id,
                                  file_url |-> getPublicUrl(filePath(name, nextFile + 1)) ] ]
         /\ Note("handoff")
         /\ UNCHANGED successTimers

\* AudioRecorder.handleUpload
handleUpload(name, label) ==
    IF HasBlob
    THEN handleRecordingComplete(audioBlob[1], name, label)
    ELSE /\ Note("noHandoff")
         /\ UNCHANGED << isUploading, uploadSuccess, uploadError, handoff >>

ClickUpload(name, label) ==
    /\ UploadEnabled
    /\ nextFile < MaxHandoffs
    /\ handleUpload(name, label)
    /\ UNCHANGED << program, delivered, auth, user, currentView, store, listState >>

\* The catch and finally blocks of handleRecordingComplete.
CatchUpload(e) ==
    /\ uploadError' = uploadErrorMessage(e)
    /\ isUploading' = FALSE
    /\ upload' = NoCall

\* storage.upload answers with an error.
UploadFails(e) ==
    /\ upload.stage = "storage"
    /\ CatchUpload(e)
    /\ Note("uploadFailed")
    /\ UNCHANGED << program, delivered, auth, user, currentView, uploadSuccess,
                    nextFile, successTimers, store, listState >>

\* storage.upload stores the object; the row is built and sent.
UploadSucceeds ==
    /\ upload.stage = "storage"
    /\ objects' = objects \cup { [path |-> upload.path, blob |-> upload.blob] }
    /\ upload' = [upload EXCEPT !.stage = "insert"]
    /\ Note("stored")
    /\ UNCHANGED << program, delivered, auth, appState, nextFile, successTimers,
                    recording_logs, insertedBy, selected, listState >>

\* The insert answers with an error.
InsertFails(e) ==
    /\ upload.stage = "insert"
    /\ CatchUpload(e)
    /\ Note("insertFailed")
    /\ UNCHANGED << program, delivered, auth, user, currentView, uploadSuccess,
                    nextFile, successTimers, store, listState >>

\* ----------------------------------------------------- recording_logs policies
\* SQL equality: NULL equals nothing.
Eq(a, b) == a # Null /\ b # Null /\ a = b

MigrationOnePolicies ==
    { [name |-> "Public read access", cmd |-> "SELECT", to |-> "public", expr |-> "true"],
      [name |-> "Public insert access", cmd |-> "INSERT", to |-> "public", expr |-> "true"] }
DroppedPolicies == { "Public read access", "Public insert access" }
MigrationTwoPolicies ==
    { [name |-> "Users can insert their own recordings", cmd |-> "INSERT",
       to |-> "authenticated", expr |-> "auth.uid() = user_id"],
      [name |-> "Users can read their own recordings", cmd |-> "SELECT",
       to |-> "authenticated", expr |-> "auth.uid() = user_id"],
      [name |-> "Admin can read all recordings", cmd |-> "SELECT",
       to |-> "authenticated", expr |-> "admin"],
      [name |-> "Public can insert recordings", cmd |-> "INSERT",
       to |-> "public", expr |-> "true"],
      [name |-> "Public can read all recordings", cmd |-> "SELECT",
       to |-> "public", expr |-> "true"] }

\* The policies on the table once both migrations have run.
Policies ==
    { p \in MigrationOnePolicies : p.name \notin DroppedPolicies }
        \cup MigrationTwoPolicies

\* The role of a client's token, and the policies written TO it.
RoleOf(client) == IF client.id = Null THEN "anon" ELSE "authenticated"
AppliesTo(p, client) == p.to = "public" \/ p.to = RoleOf(client)

\* A policy's USING / WITH CHECK expression for a client and a row.
Holds(expr, client, row) ==
    IF expr = "true" THEN TRUE
    ELSE IF expr = "auth.uid() = user_id" THEN Eq(client.id, row.user_id)
    ELSE \E u \in Users : Eq(u.id, client.id) /\ Eq(u.email, AdminEmail)

\* Row-level security: permissive policies of a command are OR-ed.
Allowed(cmd, client, row) ==
    \E p \in Policies : p.cmd = cmd /\ AppliesTo(p, client) /\ Holds(p.expr, client, row)

\* What select * returns to a client.
Visible(client) == SelectSeq(recording_logs, LAMBDA row : Allowed("SELECT", client, row))

\* The insert of the hand-off is accepted: success message, form cleared.
InsertSucceeds ==
    /\ upload.stage = "insert"
    /\ Allowed("INSERT", user, upload.row)
    /\ recording_logs' = Append(recording_logs, upload.row)
    /\ insertedBy' = Append(insertedBy, user)
    /\ uploadSuccess' = TRUE
    /\ isUploading' = FALSE
    /\ upload' = NoCall
    /\ successTimers' = successTimers + 1
    /\ Note("uploaded")
    /\ UNCHANGED << program, delivered, auth, user, currentView, uploadError,
                    nextFile, objects, selected, listState >>

\* setTimeout(() => setUploadSuccess(false), 3000)
ClearSuccess ==
    /\ successTimers > 0
    /\ successTimers' = successTimers - 1
    /\ uploadSuccess' = FALSE
    /\ Note("successCleared")
    /\ UNCHANGED << program, delivered, auth, user, currentView, isUploading,
                    uploadError, nextFile, upload, store, listState >>

\* Rows that clients other than this App send to the table.
OtherRows ==
    [ candidate_name : { << "x" >> }, question_label : { << "q" >> },
      user_id : { u.id : u \in Clients }, file_url : { << "elsewhere" >> } ]

\* Any client inserts a row through the REST interface.
Insert(client, row) ==
    /\ Len(recording_logs) < MaxRows
    /\ Allowed("INSERT", client, row)
    /\ recording_logs' = Append(recording_logs, row)
    /\ insertedBy' = Append(insertedBy, client)
    /\ Note("insert")
    /\ UNCHANGED << program, delivered, auth, appState, handoff, objects, selected, listState >>

\* Any client selects all rows through the REST interface.
Select(client) ==
    /\ selected' = [by |-> client, rows |-> Visible(client)]
    /\ Note("select")
    /\ UNCHANGED << program, delivered, auth, appState, handoff, objects,
                    recording_logs, insertedBy, listState >>

\* ------------------------------------------------------------- RecordingsList
isAdmin(u) == Eq(u.email, AdminEmail)

RECURSIVE Reverse(_)
Reverse(q) == IF q = << >> THEN << >> ELSE Append(Reverse(Tail(q)), Head(q))

\* A query that never adds the user_id filter.
Query_Unfiltered(u, rows) == rows

\* select('*'), with eq('user_id', user.id) unless the user is the admin
Query(u, rows) ==
    IF ~isAdmin(u) THEN SelectSeq(rows, LAMBDA row : Eq(row.user_id, u.id)) ELSE rows

\* fetchRecordings up to its await.
fetchRecordings ==
    /\ loading' = TRUE
    /\ listError' = ""
    /\ UNCHANGED recordings

\* setCurrentView('list'): the recorder unmounts, the list mounts and fetches.
ShowList ==
    /\ currentView = "record"
    /\ mounted
    /\ currentView' = "list"
    /\ dispose
    /\ mounted' = FALSE
    /\ fetchRecordings
    /\ NoteFrom("showList")
    /\ UNCHANGED << user, isUploading, uploadSuccess, uploadError, handoff,
                    objects, recording_logs, insertedBy, selected, auth >>

\* The Refresh button of the list.
ClickRefresh ==
    /\ currentView = "list"
    /\ ~loading
    /\ fetchRecordings
    /\ Note("refresh")
    /\ UNCHANGED << program, delivered, auth, appState, handoff, store >>

\* The query answers: newest first.
FetchResolves ==
    /\ loading
    /\ recordings' = Reverse(Query(user, Visible(user)))
    /\ loading' = FALSE
    /\ Note("fetched")
    /\ UNCHANGED << program, delivered, auth, appState, handoff, store, listError >>

\* The query answers with an error.
FetchFails ==
    /\ loading
    /\ listError' = MsgListFailed
    /\ loading' = FALSE
    /\ Note("fetchFailed")
    /\ UNCHANGED << program, delivered, auth, appState, handoff, store, recordings >>

\* ----------------------------------------------------------------- App auth
\* What App renders: the loading text, the sign-in form, or the shell with the
\* view chosen by currentView.
Rendered ==
    IF appLoading THEN "loading"
    ELSE IF user = NoUser THEN "auth"
    ELSE currentView

\* A new AudioRecorder instance is rendered: fresh state and refs, in the
\* browser as it is.
mountRecorder ==
    /\ mounted' = TRUE
    /\ isRecording' = FALSE
    /\ audioBlob' = << >>
    /\ recordingTime' = 0
    /\ audioUrl' = NoId
    /\ error' = IF isSupported THEN NoError ELSE MsgUnsupported
    /\ mediaRecorderRef' = NoId
    /\ audioChunksRef' = << >>
    /\ timerRef' = NoId
    /\ streamRef' = NoId
    /\ delivered' = << >>
    /\ UNCHANGED << isSupported, browser >>

\* setUser(u); setLoading(false), and the render that follows: the view
\* unmounts when the shell goes away and mounts, as a new instance, when the
\* shell appears; a list that mounts fetches.
setUser(u) ==
    /\ user' = u
    /\ appLoading' = FALSE
    /\ IF mounted /\ u = NoUser
       THEN dispose /\ mounted' = FALSE
       ELSE IF ~mounted /\ u # NoUser /\ currentView = "record"
       THEN mountRecorder
       ELSE UNCHANGED << program, delivered >>
    /\ IF Rendered # "list" /\ u # NoUser /\ currentView = "list"
       THEN fetchRecordings
       ELSE UNCHANGED listState
    /\ UNCHANGED << currentView, isUploading, uploadSuccess, uploadError,
                    handoff, store >>

\* The Record button of the shell, with the list shown.
ShowRecord ==
    /\ Rendered = "list"
    /\ currentView' = "record"
    /\ mountRecorder
    /\ Note("showRecord")
    /\ UNCHANGED << user, isUploading, uploadSuccess, uploadError, handoff,
                    store, listState, auth >>

\* getSession reads the stored session.
LookupReads ==
    /\ lookup.stage = "pending"
    /\ lookup' = [stage |-> "read", user |-> session]
    /\ Note("lookupRead")
    /\ UNCHANGED << program, delivered, appState, handoff, store, listState,
                    appLoading, session, notified >>

\* The promise of getSession resolves and its then-callback runs.
LookupResolves ==
    /\ lookup.stage = "read"
    /\ lookup' = [lookup EXCEPT !.stage = "done"]
    /\ setUser(lookup.user)
    /\ Note("lookupResolved")
    /\ UNCHANGED << session, notified >>

\* The onAuthStateChange callback.
AuthStateChange(u) ==
    /\ notified' = << u >>
    /\ setUser(u)
    /\ UNCHANGED lookup

\* An account signs in, in this tab or another.
SignIn(u) ==
    /\ session = NoUser
    /\ session' = u
    /\ AuthStateChange(u)
    /\ Note("signedIn")

\* The account signs out, in this tab or another.
SignOut ==
    /\ session # NoUser
    /\ session' = NoUser
    /\ AuthStateChange(NoUser)
    /\ Note("signedOut")

\* The service reports the session it has: at subscription, at a token refresh.
SessionReported ==
    /\ notified # << session >>
    /\ AuthStateChange(session)
    /\ Note("sessionReported")
    /\ UNCHANGED session

\* ------------------------------------------------------------- specifications
Next ==
    \/ ClickStart
    \/ \E id \in Sessions, e \in AcquireFailures : GetUserMediaRejected(id, e)
    \/ \E id \in Sessions : StartNoTracks(id)
    \/ \E id \in Sessions, e \in RecorderFailures : StartConstructFails(id, e)
    \/ \E id \in Sessions, e \in RecorderFailures :
          StartBeginFails(id, e)
    \/ \E id \in Sessions : StartSucceeds(id)
    \/ \E r \in Sessions, data \in Fragments : OnDataAvailable(r, data)
    \/ \E r \in Sessions : OnError(r)
    \/ \E r \in Sessions : OnStop(r)
    \/ \E t \in Sessions : Tick(t)
    \/ ClickStop
    \/ ClickReset
    \/ Dispose

Spec == Init /\ [][Next]_vars

\* The handlers called directly, in the states where the UI offers no button
\* for them, and the cleanup run a second time.
CallStop == mounted /\ ~StopVisible /\ stopRecording /\ NoteFrom("stopCall")
CallReset == mounted /\ ~ResetVisible /\ resetRecording /\ NoteFrom("resetCall")
CallDispose ==
    ~mounted /\ dispose /\ UNCHANGED << mounted, shell >> /\ NoteFrom("disposeAgain")

NextApi == Next \/ CallStop \/ CallReset \/ CallDispose

SpecApi == Init /\ [][NextApi]_vars

\* One more click on Start Recording than Spec allows.
ClickStartAgain ==
    StartVisible /\ nextId = MaxStarts /\ startRecording /\ NoteFrom("start")

NextRestart == Next \/ ClickStartAgain

SpecRestart == Init /\ [][NextRestart]_vars

\* The same, with a recorder that delivers the stop event it owes.
SpecRestartLive ==
    SpecRestart /\ \A r \in Sessions : WF_vars(OnStop(r))

\* The recorder in browsers that differ in the types they support.
InitMime == InitIn(SupportProfiles) /\ InitShell({Ann})

SpecMime == InitMime /\ [][Next]_vars

\* startRecording alone, under every answer of the feature probe.
InitNegotiate == InitIn(AllSupportSets) /\ InitShell({Ann})

NextNegotiate ==
    \/ ClickStart
    \/ \E id \in Sessions, e \in AcquireFailures : GetUserMediaRejected(id, e)
    \/ \E id \in Sessions : StartNoTracks(id)
    \/ \E id \in Sessions, e \in RecorderFailures : StartConstructFails(id, e)
    \/ \E id \in Sessions, e \in RecorderFailures : StartBeginFails(id, e)
    \/ \E id \in Sessions : StartSucceeds(id)
    \/ Dispose

SpecNegotiate == InitNegotiate /\ [][NextNegotiate]_vars

\* The first click on Start Recording.
ClickStartFirst ==
    StartVisible /\ nextId = NoId /\ startRecording /\ NoteFrom("start")

\* The recorder making one recording, with the App that takes its artifact.
NextHandoff ==
    \/ ClickStartFirst
    \/ \E id \in Sessions, e \in AcquireFailures : GetUserMediaRejected(id, e)
    \/ \E id \in Sessions : StartNoTracks(id)
    \/ \E id \in Sessions, e \in RecorderFailures : StartConstructFails(id, e)
    \/ \E id \in Sessions, e \in RecorderFailures : StartBeginFails(id, e)
    \/ \E id \in Sessions : StartSucceeds(id)
    \/ \E r \in Sessions, data \in Fragments : OnDataAvailable(r, data)
    \/ \E r \in Sessions : OnError(r)
    \/ \E r \in Sessions : OnStop(r)
    \/ \E t \in Sessions : Tick(t)
    \/ ClickStop
    \/ ClickReset
    \/ Dispose
    \/ \E name \in FieldTexts, label \in FieldTexts : ClickUpload(name, label)
    \/ \E e \in StoreFailures : UploadFails(e)
    \/ UploadSucceeds
    \/ \E e \in StoreFailures : InsertFails(e)
    \/ InsertSucceeds
    \/ ClearSuccess

SpecHandoff == Init /\ [][NextHandoff]_vars

\* The recordings list of a signed-in user, and the table every client can
\* reach.
InitList == InitIn({ChromiumProfile}) /\ isSupported /\ InitShell(Users)

NextList ==
    \/ ShowList
    \/ ClickRefresh
    \/ FetchResolves
    \/ FetchFails
    \/ \E client \in Clients, row \in OtherRows : Insert(client, row)

SpecList == InitList /\ [][NextList]_vars

NextStore ==
    \/ \E client \in Clients, row \in OtherRows : Insert(client, row)
    \/ \E client \in Clients : Select(client)

SpecStore == InitList /\ [][NextStore]_vars

\* The App from its mount: the session lookup in flight, nothing rendered
\* but the loading text, in a browser that can record.
InitAuth ==
    /\ mounted = FALSE
    /\ isSupported = TRUE
    /\ error = NoError
    /\ isRecording = FALSE
    /\ audioBlob = << >>
    /\ recordingTime = 0
    /\ audioUrl = NoId
    /\ mediaRecorderRef = NoId
    /\ audioChunksRef = << >>
    /\ timerRef = NoId
    /\ streamRef = NoId
    /\ nextId = 0
    /\ pending = {}
    /\ stream = [s \in Sessions |-> "none"]
    /\ rec = [s \in Sessions |-> "none"]
    /\ supported = ChromiumProfile
    /\ timers = {}
    /\ urls = {}
    /\ delivered = << >>
    /\ lastOp = "appMount"
    /\ prevState = "-"
    /\ user = NoUser
    /\ currentView = "record"
    /\ isUploading = FALSE
    /\ uploadSuccess = FALSE
    /\ uploadError = ""
    /\ nextFile = 0
    /\ upload = NoCall
    /\ successTimers = 0
    /\ objects = {}
    /\ recording_logs = << >>
    /\ insertedBy = << >>
    /\ selected = [by |-> Anon, rows |-> << >>]
    /\ loading = FALSE
    /\ listError = ""
    /\ recordings = << >>
    /\ appLoading = TRUE
    /\ session \in Clients
    /\ lookup = [stage |-> "pending", user |-> NoUser]
    /\ notified = << >>

NextAuth ==
    \/ LookupReads
    \/ LookupResolves
    \/ \E u \in Users : SignIn(u)
    \/ SignOut
    \/ SessionReported
    \/ ShowList
    \/ ShowRecord
    \/ Rendered = "list" /\ ClickRefresh
    \/ Rendered = "list" /\ FetchResolves
    \/ Rendered = "list" /\ FetchFails

SpecAuth == InitAuth /\ [][NextAuth]_vars

\* ===================================================================== claims

\* C1: a start request issued while the session is Requesting or Recording is
\* rejected: no step taken in those states issues another device request.
C1_StartRejectedWhileBusy ==
    [][(SessionState \in {"Requesting", "Recording"})
          => (nextId' = nextId /\ pending' \subseteq pending)]_vars

\* C2: whenever onstop has run, the device handle is released: streamRef is
\* null and no acquired stream has a live track, on every outcome.
C2_FinalizeReleasesDevice ==
    lastOp \in {"finalizeNoChunks", "finalizeNoBytes", "finalizeArtifact", "finalizeFailed"}
        => streamRef = NoId /\ \A s \in Sessions : stream[s] # "live"

\* C3: after a failed startRecording the session is in Error and holds no
\* live device handle.
C3_FailedStartReleasesDevice ==
    lastOp = "startFailed"
        => /\ SessionState = "Error"
           /\ \A s \in Sessions : stream[s] # "live"

EmptyFinalize == {"finalizeNoChunks", "finalizeNoBytes"}

\* C4: in the mounted component, onstop with no chunks, or with chunks of zero
\* bytes in total, sets the empty-recording error and leaves the artifact and
\* its URL as they were; no artifact ever has zero bytes.
C4_EmptyFinalizeIsError ==
    /\ [](HasBlob => Len(audioBlob[1].data) > 0)
    /\ [][(mounted /\ lastOp' \in EmptyFinalize)
             => /\ error' \in {MsgNoAudio, MsgEmptyFile}
                /\ UNCHANGED << audioBlob, audioUrl >>]_vars

\* C4 witness: a recording that received only an empty fragment was finalized.
C4_Witness ==
    /\ mounted
    /\ lastOp = "finalizeNoChunks"
    /\ Len(delivered) > 0
    /\ error = MsgNoAudio
    /\ ~HasBlob

\* ------------------------------------------------------------------------ C5
RECURSIVE ExpectedBytes(_)
ExpectedBytes(frs) ==
    IF frs = << >> THEN << >>
    ELSE ExpectedBytes(SubSeq(frs, 1, Len(frs) - 1)) \o frs[Len(frs)].data

RECURSIVE SumOfSizes(_)
SumOfSizes(frs) ==
    IF frs = << >> THEN 0 ELSE Len(frs[1].data) + SumOfSizes(Tail(frs))

NonEmptyFragments(frs) == SelectSeq(frs, LAMBDA f : Len(f.data) > 0)

\* C5: the artifact onstop sets is the concatenation, in emission order,
\* of exactly the non-empty fragments delivered since the chunk array was
\* created, and its size is the sum of their sizes.
C5_ArtifactIsConcatenation ==
    (mounted /\ lastOp = "finalizeArtifact")
        => /\ HasBlob
           /\ audioBlob[1].data = ExpectedBytes(NonEmptyFragments(delivered))
           /\ Len(audioBlob[1].data) = SumOfSizes(NonEmptyFragments(delivered))

\* C5 witness: two different non-empty fragments with an empty one between
\* them were delivered and then finalized.
C5_Witness ==
    /\ mounted
    /\ lastOp = "finalizeArtifact"
    /\ Len(delivered) = 3
    /\ Len(delivered[1].data) = 1
    /\ Len(delivered[2].data) = 0
    /\ Len(delivered[3].data) = 2
    /\ audioBlob[1].data = <<1, 2, 3>>

\* ------------------------------------------------------------------------ C6
\* C6: while the component is mounted the artifact exists if and only if the
\* session is Stopped with non-empty chunks of total size > 0.
C6_ArtifactIffStopped ==
    mounted =>
        (HasBlob <=> /\ SessionState = "Stopped"
                     /\ audioChunksRef # << >>
                     /\ totalSize(audioChunksRef) > 0)

\* ------------------------------------------------------------------------ C7
\* C7: stopRecording run while the recording flag is off changes nothing of
\* the component or of the browser objects it holds.
C7_StopIsNoOpUnlessRecording ==
    [][(lastOp' \in {"stop", "stopCall"} /\ ~isRecording) => UNCHANGED program]_vars

\* C7 witness: stopRecording was called in Error, after a recorder error had
\* left the interval timer running, and the timer is still running.
C7_Witness ==
    /\ lastOp = "stopCall"
    /\ prevState = "Error"
    /\ timerRef # NoId
    /\ timerRef \in timers

\* ------------------------------------------------------------------------ C8
ResetOps == {"reset", "resetCall"}
ResetPost ==
    /\ SessionState = "Idle"
    /\ audioChunksRef = << >>
    /\ ~HasBlob
    /\ audioUrl = NoId
    /\ recordingTime = 0

DisposeOps == {"dispose", "disposeAgain"}

\* C9: right after the cleanup has run, the stream held in streamRef has no
\* live track, the interval in timerRef is not running and the preview URL is
\* revoked; running the cleanup again changes nothing.
C9_DisposeReleasesAndIsIdempotent ==
    /\ [](lastOp \in DisposeOps
            => /\ streamRef # NoId => stream[streamRef] # "live"
               /\ timerRef \notin timers
               /\ audioUrl \notin urls)
    /\ [][(lastOp \in DisposeOps /\ lastOp' = "disposeAgain")
             => UNCHANGED program]_vars

\* C9 witness: the component was unmounted while recording and the cleanup
\* then ran a second time.
C9_Witness ==
    /\ lastOp = "disposeAgain"
    /\ streamRef # NoId
    /\ stream[streamRef] = "stopped"
    /\ timerRef # NoId
    /\ timers = {}

C11_UnsupportedNeverAcquires ==
    ~isSupported
        => /\ error = MsgUnsupported
           /\ ~StartVisible
           /\ nextId = 0
           /\ pending = {}
           /\ \A s \in Sessions : stream[s] = "none"

\* C11 witness: the unsupported component lived on to its unmount.
C11_Witness ==
    /\ ~isSupported
    /\ error = MsgUnsupported
    /\ lastOp = "dispose"
    /\ prevState = "Error"

\* ----------------------------------------------------------------------- C12
\* C12: the artifact's type is the type of the first accumulated chunk, and
\* the negotiated mimeType of the session when that chunk carries no type.
C12_ArtifactTypeIsNegotiated ==
    (mounted /\ lastOp = "finalizeArtifact")
        => audioBlob[1].type = IF audioChunksRef[1].type # ""
                               THEN audioChunksRef[1].type
                               ELSE mimeType

\* ----------------------------------------------------------------------- C13
Thrown == AcquireFailures \cup RecorderFailures \cup {NoTracksError}
ClassifiedNames ==
    {"NotAllowedError", "NotFoundError", "NotSupportedError", "NotReadableError"}
FailureClass(e) ==
    IF e.isError /\ e.name \in ClassifiedNames THEN e.name ELSE "unclassified"
EmptyMessages == {MsgNoAudio, MsgEmptyFile}
FailureOps ==
    {"startFailed", "recorderError", "finalizeNoChunks", "finalizeNoBytes",
     "finalizeFailed"}

\* The messages of the catch block, and whether they tell the classes apart.
FailureMessages == { errorMessage(e) : e \in Thrown }
ClassesHaveDistinctMessages ==
    /\ \A e1, e2 \in Thrown :
          FailureClass(e1) # FailureClass(e2) => errorMessage(e1) # errorMessage(e2)
    /\ FailureMessages \cap (EmptyMessages \cup {NoError}) = {}

\* C13: thrown values of different failure classes (permission denied, no
\* device, unsupported, in use, unclassified) get different messages, none of
\* them an empty-recording message; a failed start shows one of them, an
\* empty recording shows an empty-recording message, and after any failure
\* the mounted component's error message is not empty.
C13_FailuresHaveDistinctMessages ==
    /\ ClassesHaveDistinctMessages
    /\ (mounted /\ lastOp = "startFailed") => error \in FailureMessages
    /\ (mounted /\ lastOp \in EmptyFinalize) => error \in EmptyMessages
    /\ (mounted /\ lastOp \in FailureOps) => error # NoError

\* C13 witness: a start failed because the microphone is in use elsewhere.
C13_Witness ==
    /\ mounted
    /\ lastOp = "startFailed"
    /\ error = errorMessage(DomError("NotReadableError"))
    /\ error # errorMessage(DomError("NotFoundError"))

\* ----------------------------------------------------------------------- C14
SupportedIndexes(sup) ==
    { i \in 1 .. Len(MimePreference) : MimePreference[i] \in sup }
Least(S) == CHOOSE i \in S : \A j \in S : i <= j

\* C14 as stated: the type negotiated by a start is the first supported
\* entry of the preference list, and it is the fallback type exactly when no
\* entry is supported.
C14_FallbackExactlyWhenNoneSupported ==
    lastOp = "started"
        => /\ SupportedIndexes(supported) # {}
                 => mimeType = MimePreference[Least(SupportedIndexes(supported))]
           /\ mimeType = FallbackMime <=> SupportedIndexes(supported) = {}

\* C14 amended: the negotiated type is the first supported entry of the
\* preference list, the fallback type when no entry is supported, and it
\* equals the fallback type exactly when no entry is supported or the first
\* supported entry is that same type.
C14_FirstSupportedWins ==
    /\ SupportedIndexes(supported) # {}
          => mimeType = MimePreference[Least(SupportedIndexes(supported))]
    /\ SupportedIndexes(supported) = {} => mimeType = FallbackMime
    /\ mimeType = FallbackMime
          <=> \/ SupportedIndexes(supported) = {}
              \/ MimePreference[Least(SupportedIndexes(supported))] = FallbackMime

\* C14 witness: a recording started in a browser that supports the third and
\* the fifth entry only.
C14_Witness ==
    /\ lastOp = "started"
    /\ supported = {"audio/ogg;codecs=opus", "audio/wav"}
    /\ mimeType = "audio/ogg;codecs=opus"

\* ----------------------------------------------------------------------- C18
StopEventDue == \E r \in Sessions : rec[r] = "stopping"

\* C18: in Idle, Stopped and Error, with no stop event outstanding, no
\* acquired stream has a live track; and a recorder error event leaves the
\* session in Error with the tracks of its stream stopped.
C18_NoHandleOutsideCapture ==
    /\ (mounted /\ SessionState \in {"Idle", "Stopped", "Error"} /\ ~StopEventDue)
          => \A s \in Sessions : stream[s] # "live"
    /\ (mounted /\ lastOp = "recorderError")
          => /\ SessionState = "Error"
             /\ \A s \in Sessions : stream[s] # "live"

\* ----------------------------------------------------------------------- C19
\* C19: at most one interval timer runs at any time; the counter changes only
\* by a tick of +1 taken while Recording, or by being set to zero by a start
\* or a reset; with no stop event outstanding, no timer is left running
\* outside Recording.
C19_CounterOnlyWhileRecording ==
    /\ [](Cardinality(timers) <= 1)
    /\ [][(recordingTime' # recordingTime)
             => \/ /\ lastOp' = "tick"
                   /\ SessionState = "Recording"
                   /\ recordingTime' = recordingTime + 1
                \/ /\ lastOp' \in {"started", "reset", "resetCall"}
                   /\ recordingTime' = 0]_vars
    /\ []((mounted /\ SessionState # "Recording" /\ ~StopEventDue) => timers = {})

\* ----------------------------------------------------------------------- C20
\* C20: a stop requested in Recording leads to Stopped or Error; the stop
\* event of a recorder is processed once; and an artifact is set only by a
\* stop event, never while a recorder is still capturing into the chunks.
C20_StopLeadsToOneFinalization ==
    /\ (lastOp = "stop" /\ prevState = "Recording")
          ~> (SessionState \in {"Stopped", "Error"})
    /\ [][\A r \in Sessions : (rec[r] = "inactive") => (rec'[r] = "inactive")]_vars
    /\ [][(audioBlob' # audioBlob /\ audioBlob' # << >>)
             => /\ lastOp' = "finalizeArtifact"
                /\ \A r \in Sessions : rec[r] # "recording"]_vars

\* ----------------------------------------------------------------------- C15
UploadFailureOps == {"uploadFailed", "insertFailed"}

\* C15: a failed upload or insert shows a message, ends the uploading state
\* and changes nothing of the recorder, so that an artifact still shown can be
\* uploaded again; a hand-off starts only from a state with an artifact and
\* carries the bytes of that artifact.
C15_FailedUploadKeepsArtifact ==
    /\ [][(lastOp' \in UploadFailureOps)
             => /\ uploadError' # ""
                /\ ~isUploading'
                /\ UNCHANGED program]_vars
    /\ []((lastOp \in UploadFailureOps /\ ResetVisible) => UploadEnabled)
    /\ [][(lastOp' = "handoff")
             => /\ HasBlob
                /\ upload'.blob.data = audioBlob[1].data
                /\ UNCHANGED program]_vars
    /\ [](upload.stage # "none" => Len(upload.blob.data) > 0)

\* C15 witness: the object was stored, the insert failed, and the artifact
\* is still there with Upload Recording enabled.
C15_Witness ==
    /\ lastOp = "insertFailed"
    /\ objects # {}
    /\ recording_logs = << >>
    /\ uploadError = MsgUploadFailed
    /\ HasBlob
    /\ UploadEnabled

\* ----------------------------------------------------------------------- C16
Rows(q) == { q[i] : i \in 1 .. Len(q) }

\* C16: right after a fetch, the list of a user who is not the admin holds
\* exactly the rows of the table whose user_id is that user's id, and the
\* list of the admin holds every row of the table, whoever inserted them.
C16_ListShowsOwnRowsOrAll ==
    lastOp = "fetched"
        => IF user.email = AdminEmail
           THEN recordings = Reverse(recording_logs)
           ELSE /\ \A row \in Rows(recordings) : row.user_id = user.id
                /\ Rows(recordings)
                     = { row \in Rows(recording_logs) : row.user_id = user.id }

\* C16 witness: Ann fetched her list while the table holds a row of hers
\* that Bob inserted and a row of Bob's.
C16_Witness ==
    /\ lastOp = "fetched"
    /\ user = Ann
    /\ Len(recording_logs) = 2
    /\ recording_logs[1].user_id = Ann.id
    /\ insertedBy[1] = Bob
    /\ recording_logs[2].user_id = Bob.id
    /\ Len(recordings) = 1

\* ----------------------------------------------------------------------- C17
\* C17: every row a client other than the admin inserted carries that
\* client's id as user_id; every row a select returned to such a client
\* carries that client's id; and only the admin is returned every row.
C17_PoliciesRestrictToOwnRows ==
    /\ \A i \in 1 .. Len(recording_logs) :
          insertedBy[i].email # AdminEmail
              => recording_logs[i].user_id = insertedBy[i].id
    /\ selected.by.email # AdminEmail
          => \A row \in Rows(selected.rows) : row.user_id = selected.by.id
    /\ (lastOp = "select" /\ selected.by.email = AdminEmail)
          => selected.rows = recording_logs

\* ----------------------------------------------------------------------- C21
NonBlank(t) == \E i \in 1 .. Len(t) : t[i] # " "
AttemptEnds == {"uploaded", "uploadFailed", "insertFailed"}

\* C21: the table grows only by the one row of a hand-off whose two fields
\* are non-blank and whose object is in the bucket, and the row's file_url is
\* the public URL of that object's path; a rejected validation and a failed
\* upload insert nothing; when an attempt ends, with success or failure, the
\* uploading flag is off, and a rejected validation never turns it on.
C21_RowOnlyAfterValidUpload ==
    /\ [][(recording_logs' # recording_logs)
             => /\ lastOp' = "uploaded"
                /\ upload.stage = "insert"
                /\ recording_logs' = Append(recording_logs, upload.row)
                /\ NonBlank(upload.row.candidate_name)
                /\ NonBlank(upload.row.question_label)
                /\ \E o \in objects :
                      /\ o.path = upload.path
                      /\ o.blob = upload.blob
                      /\ upload.row.file_url = << "public", "recordings" >> \o o.path]_vars
    /\ [][(lastOp' \in {"handoffRejected", "uploadFailed", "insertFailed"})
             => UNCHANGED recording_logs]_vars
    /\ [][(lastOp' \in AttemptEnds) => (isUploading /\ ~isUploading')]_vars
    /\ [][(lastOp' = "handoffRejected")
             => (~isUploading' /\ uploadError' \in {MsgNameMissing, MsgLabelMissing})]_vars

\* C21 witness: a hand-off went through: one object, one row pointing at it.
C21_Witness ==
    /\ lastOp = "uploaded"
    /\ Len(recording_logs) = 1
    /\ Cardinality(objects) = 1
    /\ \E o \in objects : recording_logs[1].file_url = getPublicUrl(o.path)
    /\ uploadSuccess
    /\ ~isUploading

\* ----------------------------------------------------------------------- C22
\* C22: once a notification has arrived, the App's user is the account of
\* the last notification, whenever the session lookup resolves; and the
\* recorder and the list are rendered, and the recorder mounted, only while
\* user is not null.
C22_IdentityFollowsNotifications ==
    /\ notified # << >> => user = notified[1]
    /\ Rendered \in {"record", "list"} => user # NoUser
    /\ mounted => user # NoUser

====
